---- MODULE Spec2Model ----
(***************************************************************************)
(* Model of generate_table_types.py: the pipeline                          *)
(*   export_mysql_schema -> clean_ddl -> generate_pydantic_models          *)
(* with the text of every file kept as a string, so that clean_ddl's       *)
(* line rules (strip, startswith, endswith, split, rstrip, find, the       *)
(* parenthesis scanner) are computed character by character as the code    *)
(* computes them.  Indices are 0-based as in Python; s[a:b] is Slice.      *)
(***************************************************************************)
EXTENDS Integers, Sequences, FiniteSets, TLC

VARIABLES
    pc,            \* position of the run
    with_export,   \* whether the run starts with export_mysql_schema
    dump,          \* what mysqldump would write to its stdout
    returncode,    \* exit status of the mysqldump process (-1: not run)
    dump_runs,     \* number of subprocess.run calls made
    files,         \* content of the files, by role
    args,          \* (input_file, output_file) of the running clean_ddl
    lines,         \* clean_ddl: lines
    idx,           \* clean_ddl: number of lines the loop has consumed
    skip_block,    \* clean_ddl: skip_block
    cleaned_lines, \* clean_ddl: cleaned_lines
    pass,          \* number of clean_ddl calls started
    printed,       \* what was printed, in order
    exit_status,   \* exit status of the run (-1: still running)
    types_mapping  \* overrides put into omymodels' types_mapping

vars == <<pc, with_export, dump, returncode, dump_runs, files, args, lines, idx,
          skip_block, cleaned_lines, pass, printed, exit_status, types_mapping>>

(* ------------------------------ bounds -------------------------------- *)

MaxLines == 3

MaxTok == 3

(* ------------------------- Python str methods ------------------------- *)

Whitespace == {" ", "\n", "\t"}

\* s[a:b] for 0 <= a, b <= len(s)
Slice(s, a, b) == SubSeq(s, a + 1, b)

\* s[i]
Ch(s, i) == SubSeq(s, i + 1, i + 1)

startswith(s, p) == Len(p) <= Len(s) /\ Slice(s, 0, Len(p)) = p

endswith(s, p) == Len(p) <= Len(s) /\ Slice(s, Len(s) - Len(p), Len(s)) = p

\* s.find(sub): the lowest index where sub occurs, -1 when there is none
find(s, sub) ==
    LET hits == {i \in 0..(Len(s) - Len(sub)) : Slice(s, i, i + Len(sub)) = sub}
    IN  IF hits = {} THEN -1 ELSE CHOOSE i \in hits : \A j \in hits : i <= j

\* sub in s
contains(s, sub) == find(s, sub) # -1

RECURSIVE rstrip(_, _)
rstrip(s, chars) ==
    IF Len(s) > 0 /\ Ch(s, Len(s) - 1) \in chars
    THEN rstrip(Slice(s, 0, Len(s) - 1), chars)
    ELSE s

RECURSIVE lstrip(_, _)
lstrip(s, chars) ==
    IF Len(s) > 0 /\ Ch(s, 0) \in chars
    THEN lstrip(Slice(s, 1, Len(s)), chars)
    ELSE s

strip(s) == lstrip(rstrip(s, Whitespace), Whitespace)

\* s.split(sep)[0]
split0(s, sep) == IF contains(s, sep) THEN Slice(s, 0, find(s, sep)) ELSE s

\* f.readlines(): the text cut after each newline, the newline kept
RECURSIVE readlines(_)
readlines(text) ==
    IF text = "" THEN <<>>
    ELSE LET n == find(text, "\n")
         IN  IF n = -1 THEN <<text>>
             ELSE <<Slice(text, 0, n + 1)>> \o readlines(Slice(text, n + 1, Len(text)))

\* f.writelines(ls): the lines written one after the other
RECURSIVE writelines(_)
writelines(ls) == IF ls = <<>> THEN "" ELSE Head(ls) \o writelines(Tail(ls))

(* ----------------------- find_closing_parenthesis --------------------- *)

RECURSIVE ScanParens(_, _, _)
ScanParens(s, i, count) ==
    IF i >= Len(s) THEN -1
    ELSE IF Ch(s, i) = "(" THEN ScanParens(s, i + 1, count + 1)
    ELSE IF Ch(s, i) = ")"
         THEN IF count - 1 = 0 THEN i ELSE ScanParens(s, i + 1, count - 1)
    ELSE ScanParens(s, i + 1, count)

find_closing_parenthesis(s, start) == ScanParens(s, start, 0)

(* ------------------------ clean_ddl: the rules ------------------------ *)

\* the drops made before the ENGINE= rewrite
DropsDirective(stripped_line) ==
    \/ startswith(stripped_line, "/*!") /\ endswith(stripped_line, "*/;")
    \/ startswith(stripped_line, "SET ")
    \/ startswith(stripped_line, "--")

\* a drop of every line that mentions PRIMARY KEY, not only one that starts with it
DropsKey_Anywhere(stripped_line) ==
    \/ startswith(stripped_line, "CONSTRAINT")
    \/ startswith(stripped_line, "UNIQUE KEY")
    \/ contains(stripped_line, "PRIMARY KEY")
    \/ startswith(stripped_line, "FULLTEXT KEY")
    \/ startswith(stripped_line, "KEY ")

\* the KEY rule left out
DropsKey_NoKey(stripped_line) ==
    \/ startswith(stripped_line, "CONSTRAINT")
    \/ startswith(stripped_line, "UNIQUE KEY")
    \/ startswith(stripped_line, "PRIMARY KEY")
    \/ startswith(stripped_line, "FULLTEXT KEY")

\* the drops made after the ENGINE= rewrite
DropsKey(stripped_line) ==
    \/ startswith(stripped_line, "CONSTRAINT")
    \/ startswith(stripped_line, "UNIQUE KEY")
    \/ startswith(stripped_line, "PRIMARY KEY")
    \/ startswith(stripped_line, "FULLTEXT KEY")
    \/ startswith(stripped_line, "KEY ")

\* the text before ENGINE= left untrimmed
EngineRule_NoTrim(line) ==
    IF contains(line, "ENGINE=") THEN split0(line, "ENGINE=") \o ";\n" ELSE line

EngineRule(line) ==
    IF contains(line, "ENGINE=")
    THEN rstrip(split0(line, "ENGINE="), {" ", ",", "\n"}) \o ";\n"
    ELSE line

\* the text before GENERATED left untrimmed
GeneratedRule_NoTrim(line) ==
    IF contains(line, "GENERATED")
    THEN Slice(line, 0, find(line, "GENERATED")) \o ",\n"
    ELSE line

GeneratedRule(line) ==
    IF contains(line, "GENERATED")
    THEN rstrip(Slice(line, 0, find(line, "GENERATED")), Whitespace) \o ",\n"
    ELSE line

\* the comma appended without the newline
TypeRule_NoNewline(line, token) ==
    IF contains(line, token)
    THEN LET end == find_closing_parenthesis(line, find(line, token))
         IN  IF end # -1 THEN Slice(line, 0, end + 1) \o "," ELSE line
    ELSE line

\* the enum( rule and the set( rule, which differ in the token only
TypeRule(line, token) ==
    IF contains(line, token)
    THEN LET end == find_closing_parenthesis(line, find(line, token))
         IN  IF end # -1 THEN Slice(line, 0, end + 1) \o ",\n" ELSE line
    ELSE line

EnumRule(line) == TypeRule(line, "enum(")

SetRule(line) == TypeRule(line, "set(")

\* the rewrites a line that is kept goes through, in the code's order
Rewrite(line) == SetRule(EnumRule(GeneratedRule(EngineRule(line))))

\* one iteration of the loop: the new skip_block and the lines appended
LoopBody(line, skip) ==
    LET stripped_line == strip(line)
    IN  IF DropsDirective(stripped_line) THEN [skip |-> skip, out |-> <<>>]
        ELSE IF DropsKey(stripped_line) THEN [skip |-> skip, out |-> <<>>]
        ELSE IF startswith(stripped_line, "/*!") THEN [skip |-> TRUE, out |-> <<>>]
        ELSE IF skip /\ endswith(stripped_line, "*/;") THEN [skip |-> FALSE, out |-> <<>>]
        ELSE IF skip THEN [skip |-> skip, out |-> <<>>]
        ELSE [skip |-> skip, out |-> <<Rewrite(line)>>]

\* the kept line put in front: cleaned_lines.insert(0, line)
AppendLines_Front(cleaned, out) == out \o cleaned

\* cleaned_lines.append(line), for the lines an iteration keeps
AppendLines(cleaned, out) == cleaned \o out

\* the whole loop over ls, from skip_block = skip: the final cleaned_lines
RECURSIVE clean_loop(_, _, _)
clean_loop(ls, skip, cleaned) ==
    IF ls = <<>> THEN cleaned
    ELSE LET r == LoopBody(Head(ls), skip)
         IN  clean_loop(Tail(ls), r.skip, AppendLines(cleaned, r.out))

(* ------------------------------ inputs -------------------------------- *)

\* lines of a dump, for the documents of several lines
Catalog ==
    { "CREATE TABLE t (\n",
      "  flag TINYINT(1),\n",
      "  KEY k (id) ENGINE=x,\n",
      ") ENGINE=InnoDB;\n",
      "-- Table structure\n",
      "/*!40101 SET NAMES utf8 */;\n",
      "/*!50001 CREATE VIEW v AS\n",
      "SELECT 1 */;\n",
      "SET x=1 */;\n" }

\* the end-to-end scenario's input
ScenarioInput ==
    << "CREATE TABLE t (\n",
       "  id INT PRIMARY KEY,\n",
       "  flag TINYINT(1),\n",
       "  CONSTRAINT fk1 FOREIGN KEY (id) REFERENCES u(id)\n",
       ") ENGINE=InnoDB;\n" >>

\* pieces of text, for the documents built of pieces
Tokens ==
    { "ENGINE=", "GENERATED", "enum(", "set(", "(", ")", "')'", "'('",
      " ", ",", ";", "\t", "\n", "a", "KEY ", "/*!", "*/;", "--" }

\* column lines and statement ends of a dump
Examples ==
    { ") ENGINE=InnoDB DEFAULT CHARSET=utf8;\n",
      "  name enum('a','b','c') NOT NULL,\n",
      "  tags set('x','y') DEFAULT NULL,\n",
      "  c int GENERATED ALWAYS AS (a + b) STORED,\n",
      "  e enum('a','b') NOT NULL GENERATED ALWAYS AS (x) STORED,\n",
      "  p enum('a)','b') NOT NULL,\n",
      "  q enum('a(','b') NOT NULL,\n",
      "); ENGINE=InnoDB;\n",
      "  s enum('a','b') NOT NULL,\n  flag TINYINT(1),\n" }

\* lines the drop rules are about, and lines around them
KeyCatalog ==
    { "  CONSTRAINT fk1 FOREIGN KEY (id) REFERENCES u(id)\n",
      "  UNIQUE KEY u (a),\n",
      "  PRIMARY KEY (id),\n",
      "  FULLTEXT KEY f (a),\n",
      "  KEY k (id) ENGINE=x,\n",
      "SET NAMES utf8;\n",
      "-- Table structure\n",
      "/*!40101 SET NAMES utf8 */;\n",
      "/*!50001 CREATE VIEW v AS\n",
      "SELECT 1 */;\n",
      "  flag TINYINT(1),\n" }

SeqsUpTo(S, n) == UNION {[1..k -> S] : k \in 0..n}

Documents == {writelines(d) : d \in SeqsUpTo(Catalog, MaxLines)} \cup {writelines(ScenarioInput)}

KeyTexts == {writelines(d) : d \in SeqsUpTo(KeyCatalog, MaxLines)}

TokenTexts == {writelines(d) : d \in SeqsUpTo(Tokens, MaxTok)} \cup Examples

(* ------------------------------ the run ------------------------------- *)

InitWith(texts, exports) ==
    /\ dump \in texts
    /\ with_export \in exports
    /\ pc = "main"
    /\ returncode = -1
    /\ dump_runs = 0
    /\ files = [schema |-> IF with_export THEN "" ELSE dump,
                cleaned |-> "", recleaned |-> "", models |-> ""]
    /\ args = <<"schema", "cleaned">>
    /\ lines = <<>>
    /\ idx = 0
    /\ skip_block = FALSE
    /\ cleaned_lines = <<>>
    /\ pass = 0
    /\ printed = <<>>
    /\ exit_status = -1
    /\ types_mapping = {}

Init == InitWith(Documents, BOOLEAN)

InitTokens == InitWith(TokenTexts, {FALSE})

InitKeys == InitWith(KeyTexts, {FALSE})

\* __main__: the call of export_mysql_schema, when the run has it, else clean_ddl
Main ==
    /\ pc = "main"
    /\ pc' = IF with_export THEN "export" ELSE "clean_ddl"
    /\ UNCHANGED <<with_export, dump, returncode, dump_runs, files, args, lines, idx,
                   skip_block, cleaned_lines, pass, printed, exit_status, types_mapping>>

\* export_mysql_schema, mysqldump exiting 0
ExportOk ==
    /\ pc = "export"
    /\ returncode' = 0
    /\ dump_runs' = dump_runs + 1
    /\ files' = [files EXCEPT !.schema = dump]
    /\ printed' = Append(printed, "Schema exported")
    /\ pc' = "clean_ddl"
    /\ UNCHANGED <<with_export, dump, args, lines, idx, skip_block, cleaned_lines,
                   pass, exit_status, types_mapping>>

\* the except branch without its sys.exit(1): the run goes on
ExportFail_NoExit ==
    /\ pc = "export"
    /\ \E rc \in {1, 2} : returncode' = rc
    /\ dump_runs' = dump_runs + 1
    /\ files' = [files EXCEPT !.schema = ""]
    /\ printed' = printed \o <<"Error exporting schema:", "stderr">>
    /\ pc' = "clean_ddl"
    /\ UNCHANGED <<with_export, dump, args, lines, idx, skip_block, cleaned_lines,
                   pass, exit_status, types_mapping>>

\* export_mysql_schema, mysqldump exiting non-zero: CalledProcessError
ExportFail ==
    /\ pc = "export"
    /\ \E rc \in {1, 2} : returncode' = rc
    /\ dump_runs' = dump_runs + 1
    /\ files' = [files EXCEPT !.schema = ""]
    /\ printed' = printed \o <<"Error exporting schema:", "stderr">>
    /\ exit_status' = 1
    /\ pc' = "exited"
    /\ UNCHANGED <<with_export, dump, args, lines, idx, skip_block, cleaned_lines,
                   pass, types_mapping>>

\* clean_ddl: read the input file, set up the loop
CleanRead ==
    /\ pc = "clean_ddl"
    /\ lines' = readlines(files[args[1]])
    /\ cleaned_lines' = <<>>
    /\ skip_block' = FALSE
    /\ idx' = 0
    /\ pass' = pass + 1
    /\ pc' = "clean_loop"
    /\ UNCHANGED <<with_export, dump, returncode, dump_runs, files, args, printed,
                   exit_status, types_mapping>>

\* clean_ddl: one iteration of  for line in lines
CleanStep ==
    /\ pc = "clean_loop"
    /\ idx < Len(lines)
    /\ LET r == LoopBody(lines[idx + 1], skip_block)
       IN  /\ skip_block' = r.skip
           /\ cleaned_lines' = AppendLines(cleaned_lines, r.out)
    /\ idx' = idx + 1
    /\ UNCHANGED <<pc, with_export, dump, returncode, dump_runs, files, args, lines,
                   pass, printed, exit_status, types_mapping>>

\* clean_ddl: the loop is over, write the output file
CleanWrite ==
    /\ pc = "clean_loop"
    /\ idx = Len(lines)
    /\ files' = [files EXCEPT ![args[2]] = writelines(cleaned_lines)]
    /\ printed' = Append(printed, "Cleaned DDL saved")
    /\ pc' = "generate"
    /\ UNCHANGED <<with_export, dump, returncode, dump_runs, args, lines, idx,
                   skip_block, cleaned_lines, pass, exit_status, types_mapping>>

\* clean_ddl called again, on the file the first call wrote
CleanAgain ==
    /\ pc = "generate"
    /\ pass = 1
    /\ args' = <<"cleaned", "recleaned">>
    /\ pc' = "clean_ddl"
    /\ UNCHANGED <<with_export, dump, returncode, dump_runs, files, lines, idx,
                   skip_block, cleaned_lines, pass, printed, exit_status, types_mapping>>

\* generate_pydantic_models, create_models returning
GenerateOk ==
    /\ pc = "generate"
    /\ types_mapping' = types_mapping \cup {<<"tinyint(1)", "bool">>, <<"enum", "str">>}
    /\ files' = [files EXCEPT !.models = "models_code"]
    /\ printed' = Append(printed, "Pydantic models generated")
    /\ exit_status' = 0
    /\ pc' = "done"
    /\ UNCHANGED <<with_export, dump, returncode, dump_runs, args, lines, idx,
                   skip_block, cleaned_lines, pass>>

\* generate_pydantic_models, create_models raising: nothing catches it
GenerateFail ==
    /\ pc = "generate"
    /\ types_mapping' = types_mapping \cup {<<"tinyint(1)", "bool">>, <<"enum", "str">>}
    /\ printed' = Append(printed, "Traceback")
    /\ exit_status' = 1
    /\ pc' = "exited"
    /\ UNCHANGED <<with_export, dump, returncode, dump_runs, files, args, lines, idx,
                   skip_block, cleaned_lines, pass>>

Next ==
    \/ Main
    \/ ExportOk
    \/ ExportFail
    \/ CleanRead
    \/ CleanStep
    \/ CleanWrite
    \/ CleanAgain
    \/ GenerateOk
    \/ GenerateFail

Spec == Init /\ [][Next]_vars

\* clean_ddl alone, once and then again on its own output
NextClean ==
    \/ Main
    \/ CleanRead
    \/ CleanStep
    \/ CleanWrite
    \/ CleanAgain

SpecTokens == InitTokens /\ [][NextClean]_vars

SpecKeys == InitKeys /\ [][NextClean]_vars

(* ------------------------------ claims -------------------------------- *)

\* the loop is about to consume a line and keeps it
Keeps == /\ pc = "clean_loop"
         /\ idx < Len(lines)
         /\ Len(cleaned_lines') = Len(cleaned_lines) + 1

\* the line the loop is about to consume
Current == lines[idx + 1]

\* the line the step has just appended
Kept == cleaned_lines'[Len(cleaned_lines')]

\* the first call of clean_ddl has written its output
FirstPassDone == pc = "generate" /\ pass = 1

(* C1 -------------------------------------------------------------------- *)

\* C1 as stated: the scenario's output is CREATE TABLE t (, flag TINYINT(1), );
C1_Scenario_Claimed ==
    (FirstPassDone /\ dump = writelines(ScenarioInput))
        => readlines(files.cleaned) =
               << "CREATE TABLE t (\n", "  flag TINYINT(1),\n", ");\n" >>

\* C1, amended: clean_ddl on the scenario's input writes four lines: the id
\* column line, which mentions PRIMARY KEY but does not start with it, is kept;
\* the CONSTRAINT line is dropped and the ENGINE clause is truncated.
C1_Scenario ==
    (FirstPassDone /\ dump = writelines(ScenarioInput))
        => readlines(files.cleaned) =
               << "CREATE TABLE t (\n", "  id INT PRIMARY KEY,\n",
                  "  flag TINYINT(1),\n", ");\n" >>

C1_Witness == FirstPassDone /\ dump = writelines(ScenarioInput)

(* C2 -------------------------------------------------------------------- *)

\* a line a drop rule is about, in the claim's words
MatchesDropRule(line) ==
    LET t == strip(line)
    IN  \/ \E k \in {"CONSTRAINT", "UNIQUE KEY", "PRIMARY KEY", "FULLTEXT KEY", "KEY "} :
               startswith(t, k)
        \/ startswith(t, "SET ")
        \/ startswith(t, "--")
        \/ startswith(t, "/*!") /\ endswith(t, "*/;")

\* C2: a line that matches a drop rule adds nothing to the output, whatever
\* skip_block is and whatever other rule (the ENGINE= rewrite) matches it too.
C2_DropRuleLinesAbsent ==
    [][(pc = "clean_loop" /\ idx < Len(lines) /\ MatchesDropRule(Current))
           => cleaned_lines' = cleaned_lines]_vars

\* a KEY line that also holds ENGINE= has been consumed inside a skipped block
C2_Witness ==
    /\ pc = "clean_loop"
    /\ idx >= 2
    /\ skip_block
    /\ startswith(strip(lines[idx]), "KEY ")
    /\ contains(lines[idx], "ENGINE=")
    /\ cleaned_lines = <<>>

(* C3 -------------------------------------------------------------------- *)

IsOpener(line) == startswith(strip(line), "/*!") /\ ~endswith(strip(line), "*/;")

IsCloser(line) == endswith(strip(line), "*/;")

\* lines a..b are a multi-line directive: a opens it, no directive is open
\* before a, b is the first later line that ends with the closer, and no
\* line after a up to b starts a directive of its own
IsBlock(a, b) ==
    /\ 1 <= a /\ a < b /\ b <= Len(lines)
    /\ IsOpener(lines[a])
    /\ \A k \in 1..(a - 1) : ~IsOpener(lines[k])
    /\ IsCloser(lines[b])
    /\ \A k \in (a + 1)..(b - 1) : ~IsCloser(lines[k])
    /\ \A k \in (a + 1)..b : ~startswith(strip(lines[k]), "/*!")

\* C3 as stated: after the closing line Ln, whatever it holds, skip_block is
\* false again, and the output is that of the document without L1..Ln.
C3_Block_Claimed ==
    (pass = 1 /\ pc \in {"clean_loop", "generate"})
        => \A a, b \in 1..Len(lines) :
               IsBlock(a, b)
                   => /\ idx = b => ~skip_block
                      /\ idx = Len(lines)
                             => cleaned_lines =
                                    clean_loop(SubSeq(lines, 1, a - 1)
                                                   \o SubSeq(lines, b + 1, Len(lines)),
                                               FALSE, <<>>)

(* C4 -------------------------------------------------------------------- *)

\* C4: clean_ddl run on the file clean_ddl wrote writes the same file again,
\* line for line.
C4_Idempotent ==
    (pc = "generate" /\ pass = 2)
        => /\ files.recleaned = files.cleaned
           /\ cleaned_lines = lines

\* the second call is over, on a first output with a rewritten line and a
\* line kept as it was
C4_Witness ==
    /\ pc = "generate" /\ pass = 2
    /\ dump = "  s enum('a','b') NOT NULL,\n  flag TINYINT(1),\n"
    /\ files.cleaned = "  s enum('a','b'),\n  flag TINYINT(1),\n"

(* C5 -------------------------------------------------------------------- *)

\* out is got from ins by dropping some lines and rewriting the others in place
RECURSIVE IsSelection(_, _)
IsSelection(out, ins) ==
    IF out = <<>> THEN TRUE
    ELSE IF ins = <<>> THEN FALSE
    ELSE \/ Head(out) = Rewrite(Head(ins)) /\ IsSelection(Tail(out), Tail(ins))
         \/ IsSelection(out, Tail(ins))

\* C5: at every point of the loop the output is the lines consumed so far,
\* some dropped, the others rewritten in place, in the input's order: nothing
\* is duplicated, reordered or inserted.
C5_OrderPreserved ==
    (pc \in {"clean_loop", "generate"} /\ pass >= 1)
        => /\ IsSelection(cleaned_lines, SubSeq(lines, 1, idx))
           /\ pc = "generate" => readlines(files[args[2]]) = cleaned_lines

\* three lines in, the second dropped, the third rewritten
C5_Witness ==
    /\ FirstPassDone
    /\ Len(lines) = 3
    /\ cleaned_lines = <<lines[1], ");\n">>
    /\ lines[3] # ");\n"
    /\ lines[1] # lines[2]

(* C6 -------------------------------------------------------------------- *)

\* C6 as stated: the kept line is the text before ENGINE=, separators and
\* whitespace trimmed, then one semicolon; it never ends in two semicolons and
\* holds no engine option.
C6_Engine_Claimed ==
    [][(Keeps /\ contains(Current, "ENGINE="))
           => /\ Kept = rstrip(split0(Current, "ENGINE="), Whitespace \cup {","}) \o ";\n"
              /\ ~endswith(Kept, ";;\n")
              /\ ~contains(Kept, "ENGINE=")]_vars

\* C6, amended: when the text before the first ENGINE= holds no GENERATED,
\* enum( or set(, the kept line is that text without its trailing spaces,
\* commas and newlines (tabs and semicolons stay), then a semicolon and a
\* newline; it ends in two semicolons exactly when the trimmed text ends in
\* one.  In every case the kept line holds no ENGINE=.
C6_Engine ==
    [][(Keeps /\ contains(Current, "ENGINE="))
           => LET before == split0(Current, "ENGINE=")
                  t == rstrip(before, {" ", ",", "\n"})
              IN  /\ ~contains(Kept, "ENGINE=")
                  /\ (\A k \in {"GENERATED", "enum(", "set("} : ~contains(before, k))
                         => /\ Kept = t \o ";\n"
                            /\ endswith(Kept, ";;\n") <=> endswith(t, ";")]_vars

C6_Witness ==
    /\ FirstPassDone
    /\ dump = ") ENGINE=InnoDB DEFAULT CHARSET=utf8;\n"
    /\ cleaned_lines = <<");\n">>

(* C7, C10 --------------------------------------------------------------- *)

\* the closing parenthesis of the first ( at or after i, parentheses inside
\* single-quoted text not counted; -1 when there is none
RECURSIVE ScanUnquoted(_, _, _, _)
ScanUnquoted(s, i, count, quoted) ==
    IF i >= Len(s) THEN -1
    ELSE IF Ch(s, i) = "'" THEN ScanUnquoted(s, i + 1, count, ~quoted)
    ELSE IF quoted THEN ScanUnquoted(s, i + 1, count, quoted)
    ELSE IF Ch(s, i) = "(" THEN ScanUnquoted(s, i + 1, count + 1, quoted)
    ELSE IF Ch(s, i) = ")"
         THEN IF count - 1 = 0 THEN i ELSE ScanUnquoted(s, i + 1, count - 1, quoted)
    ELSE ScanUnquoted(s, i + 1, count, quoted)

StructuralClose(s, start) == ScanUnquoted(s, start, 0, FALSE)

TypeTokens == {"enum(", "set("}

\* C7 as stated: a kept column line with one enum( or set( type, closed on the
\* line, comes out cut right after the type's closing parenthesis, a comma
\* appended, the full list of members kept.
C7_Type_Claimed ==
    [][\A tok \in TypeTokens :
           (/\ Keeps
            /\ contains(Current, tok)
            /\ \A other \in TypeTokens \ {tok} : ~contains(Current, other)
            /\ ~contains(Current, "ENGINE=")
            /\ ~contains(Current, "GENERATED")
            /\ StructuralClose(Current, find(Current, tok)) # -1)
               => Kept = Slice(Current, 0,
                               StructuralClose(Current, find(Current, tok)) + 1)
                             \o ",\n"]_vars

\* C10 as stated: from an enum( or set( token, find_closing_parenthesis
\* returns the parenthesis that closes the type, parentheses inside quoted
\* members not counted, and -1 when there is none.
C10_Scanner_Claimed ==
    (pc = "clean_loop")
        => \A k \in 1..Len(lines) : \A tok \in TypeTokens :
               contains(lines[k], tok)
                   => find_closing_parenthesis(lines[k], find(lines[k], tok))
                          = StructuralClose(lines[k], find(lines[k], tok))

(* C8 -------------------------------------------------------------------- *)

\* C8 as stated: a kept column line with a GENERATED clause comes out as the
\* text before GENERATED, trimmed, a comma appended, also when that text
\* holds an enum( or set( type followed by other attributes.
C8_Generated_Claimed ==
    [][(Keeps /\ contains(Current, "GENERATED") /\ ~contains(Current, "ENGINE="))
           => Kept = rstrip(Slice(Current, 0, find(Current, "GENERATED")), Whitespace)
                         \o ",\n"]_vars

\* C8, amended: for a kept line with GENERATED and no ENGINE=, nothing from
\* GENERATED on remains and the line ends with a comma; it is the whole
\* trimmed text before GENERATED when that text holds no enum( or set(;
\* otherwise the enum/set rule may cut it further, right after a closing
\* parenthesis, and the attributes between the type and GENERATED are lost.
C8_Generated ==
    [][(Keeps /\ contains(Current, "GENERATED") /\ ~contains(Current, "ENGINE="))
           => LET p == rstrip(Slice(Current, 0, find(Current, "GENERATED")), Whitespace)
              IN  /\ ~contains(Kept, "GENERATED")
                  /\ (\A tok \in TypeTokens : ~contains(p, tok)) => Kept = p \o ",\n"
                  /\ \/ Kept = p \o ",\n"
                     \/ \E e \in 0..(Len(p) - 1) :
                            /\ Ch(p, e) = ")"
                            /\ Kept = Slice(p, 0, e + 1) \o ",\n"]_vars

C8_Witness ==
    /\ FirstPassDone
    /\ dump = "  c int GENERATED ALWAYS AS (a + b) STORED,\n"
    /\ cleaned_lines = <<"  c int,\n">>

(* C9 -------------------------------------------------------------------- *)

\* C9: once mysqldump has exited non-zero the run is over with status 1 after
\* that one attempt, the diagnostic printed, and neither clean_ddl nor
\* generate_pydantic_models has run or will.
C9_ExportFailureAborts ==
    (returncode \notin {-1, 0})
        => /\ pc = "exited"
           /\ exit_status = 1
           /\ dump_runs = 1
           /\ printed = <<"Error exporting schema:", "stderr">>
           /\ pass = 0
           /\ files.cleaned = ""
           /\ files.models = ""
           /\ types_mapping = {}
           /\ ~ENABLED Next

C9_Witness == returncode = 2 /\ pc = "exited" /\ dump # ""

====
